---- MODULE Spec2Model ----
(***************************************************************************)
(* Path-integral quantum Monte Carlo annealing, src/piqmc/qmc.pyx:         *)
(* QuantumAnneal (serial) and QuantumAnneal_parallel (OpenMP prange).      *)
(*                                                                         *)
(* Numbers.  Spins are the integers -1 and +1.  Couplings, jperp and the   *)
(* energy difference are fixed-point, in units of 1/1000.  tanh, log and   *)
(* exp are tabulated on the field values, slice counts and draws that the  *)
(* model uses (the tables are rounded so that every comparison the code    *)
(* makes has the same outcome as in floating point).  Arrays keep the      *)
(* source's 0-based indices; sequences (sched, a neighbour list,           *)
(* sidx_shuff) are 1-based, so element i of the source is element i+1.     *)
(*                                                                         *)
(* Both functions are compiled with boundscheck(False): a read outside an  *)
(* array returns whatever the memory holds, modelled as a choice in        *)
(* Garbage.                                                                *)
(***************************************************************************)
EXTENDS Integers, Sequences, FiniteSets, TLC

VARIABLES
    engine,      \* "serial" (QuantumAnneal) or "parallel" (QuantumAnneal_parallel)
    sched,       \* annealing schedule, field values in 1/1000
    mcsteps,     \* Monte Carlo steps per schedule value
    slices,      \* number of Trotter slices
    temp,        \* temperature
    nspins,      \* number of spins
    nbs,         \* neighbour table: nbs[i] is a sequence of <<index, coupling>>
    nthreads,    \* worker count of the parallel engine (0 for the serial one)
    confs0,      \* the configuration when the call starts
    rng0,        \* the state of the injected generator when the call starts
    drawsrc,     \* what crand() returns: -1, libc's generator in an unknown state
                 \* (any value of 0..RAND_MAX at each call); d >= 0, a source
                 \* that returns d at every call
    confs,       \* the configuration, confs[i][k], mutated in place
    rng,         \* state of the injected generator (serial engine)
    pc,          \* control position of the calling thread
    outcome,     \* "running", "returned" or "ZeroDivisionError"
    ifield, step, islice,   \* loop indices
    jperp,       \* inter-slice coupling of the current schedule value
    tidx,        \* declared 0 and never assigned
    sidx_shuff,  \* serial: current visiting order
    pos,         \* serial: position in sidx_shuff of the spin loop
    sidx,        \* serial: spin being evaluated
    tleft, tright,          \* serial: Trotter neighbour slices of the last evaluation
    ediff,       \* serial: energy-difference accumulator
    ediffs,      \* parallel: per-spin scratch accumulators
    nxt,         \* parallel: first prange iteration not yet handed to a thread
    thr,         \* parallel: the threads busy in the prange region, each with its
                 \* iteration cur, chunk end hi, position st, si and private tl, tr
    snap,        \* the configuration when the current slice's sweep started
    nfields,     \* number of jperp derivations so far
    nsweeps,     \* number of slice sweeps completed so far
    nprops,      \* number of proposals whose evaluation has started
    zerodraws,   \* TRUE while every uniform draw so far was 0.0
    fixedorder,  \* TRUE while every sweep so far visited the spins in index order
    nperms,      \* serial: permutations drawn since the sweeps began
    lastdraw,    \* the value crand() returned in the step just taken (-1: no call)
    run,         \* 1 in the first call, 2 in a repeated call
    result1      \* final configuration of the first call (<<>> before it ends)

inputs == <<engine, sched, mcsteps, slices, temp, nspins, nbs, nthreads, confs0, rng0,
           drawsrc>>
loops  == <<ifield, step, islice, jperp, tidx>>
serial == <<sidx_shuff, pos, sidx, tleft, tright, ediff>>
par    == <<ediffs, nxt, thr>>
hist   == <<nfields, nsweeps, nprops, zerodraws, fixedorder>>
calls  == <<run, result1>>
draws  == <<nperms, lastdraw>>
vars   == <<inputs, confs, rng, pc, outcome, loops, serial, par, snap, hist, draws,
           calls>>

---------------------------------------------------------------------------
(* Bounds of the model *)

MaxSched == 2
MaxSteps == 2
MaxSlices == 3
MaxSpins == 2
MaxThreads == 2
\* a call evaluates at most MaxWork proposals: len(sched)*mcsteps*slices*nspins
MaxWork == 6
\* the same, for the calls followed to their return under fairness
MaxWorkFair == 4
\* number of states of the injected generator
RngMod == 3

\* libc's RAND_MAX, scaled down: crand() returns a value in 0..RAND_MAX
RAND_MAX == 4

\* field values of the schedules, in 1/1000, strongest first
Ladder == <<1000, 500, 250>>

\* what an out-of-bounds read of a float array can return
Garbage == {-1, 0, 1}

---------------------------------------------------------------------------
(* Pure computations *)

\* jperp = -0.5*slices*temp*log(tanh(field/(slices*temp))) at temp = 1,
\* in 1/1000, rounded to nearest
JperpTable ==
    <<  [f \in {1000, 500, 250} |-> CASE f = 1000 -> 136 [] f = 500 -> 386 [] f = 250 -> 703],
        [f \in {1000, 500, 250} |-> CASE f = 1000 -> 772 [] f = 500 -> 1407 [] f = 250 -> 2085],
        [f \in {1000, 500, 250} |-> CASE f = 1000 -> 1702 [] f = 500 -> 2701 [] f = 250 -> 3731],
        [f \in {1000, 500, 250} |-> CASE f = 1000 -> 2814 [] f = 500 -> 4169 [] f = 250 -> 5548],
        [f \in {1000, 500, 250} |-> CASE f = 1000 -> 4057 [] f = 500 -> 5765 [] f = 250 -> 7491] >>

Jperp(field, P, T) == JperpTable[P][field]

\* floor(1000*ln(r/RAND_MAX)) for r = 1..RAND_MAX
LnDraw == <<-1387, -694, -288, 0>>

\* cexp(e/T) > r/float(RAND_MAX), for a draw r of crand(); e in 1/1000
ExpAtLeast(e, T, r) == IF r = 0 THEN TRUE ELSE e >= T * LnDraw[r]
ExpGreaterFlipped(e, T, r) == IF r = 0 THEN FALSE ELSE e < T * LnDraw[r]
ExpGreater(e, T, r) == IF r = 0 THEN TRUE ELSE e > T * LnDraw[r]

\* confs[sidx, islice] *= -1
FlipDecrement(v) == v - 2
Flip(v) == -v

\* the configuration c after confs[i, k] *= -1
FlippedRow(c, i, k) == [c EXCEPT ![i] = [kk \in DOMAIN @ |-> Flip(@[kk])]]
FlippedNext(c, i, k) == [c EXCEPT ![(i + 1) % nspins][k] = Flip(@)]
Flipped(c, i, k) == [c EXCEPT ![i][k] = Flip(@)]

\* the values a call of crand() can return
Draws == IF drawsrc < 0 THEN 0..RAND_MAX ELSE {drawsrc}

\* ediffs.fill(0.0)
FilledFirst(a) == [a EXCEPT ![0] = 0]
Filled(a) == [i \in DOMAIN a |-> 0]

\* a read of confs[i, k] without bounds check: the set of values it can return
ReadConf(c, i, k) ==
    IF i \in 0..(nspins - 1) /\ k \in 0..(slices - 1) THEN {c[i][k]} ELSE Garbage

\* a read of sched[i] without bounds check
ReadSched(i) ==
    IF i + 1 \in DOMAIN sched THEN {sched[i + 1]} ELSE {Ladder[j] : j \in DOMAIN Ladder}

\* maxnb = nbs[0].shape[0]
maxnb == Len(nbs[0])

\* one neighbour entry si (0-based) of spin i in slice k, with the neighbour
\* spin read as v: the amount added to the accumulator
NbTermAllQuadratic(c, i, k, si, v) == -2 * c[i][k] * (nbs[i][si + 1][2] * v)
NbTerm(c, i, k, si, v) ==
    LET spinidx == nbs[i][si + 1][1]
        jval    == nbs[i][si + 1][2]
    IN  IF spinidx = i THEN -2 * c[i][k] * jval
        ELSE -2 * c[i][k] * (jval * v)

\* the values the neighbour spin of entry si can be read as
NbRead(c, i, k, si) ==
    LET spinidx == nbs[i][si + 1][1]
    IN  IF spinidx = i THEN {c[i][k]} ELSE ReadConf(c, spinidx, k)

\* the neighbour loop from entry si on, starting from accumulator e:
\* the set of values the accumulator can hold after it
RECURSIVE NbLoop(_, _, _, _, _)
NbLoop(c, e, i, k, si) ==
    IF si >= maxnb THEN {e}
    ELSE UNION { NbLoop(c, e + NbTerm(c, i, k, si, v), i, k, si + 1) : v \in NbRead(c, i, k, si) }

\* periodic boundaries: <<tleft, tright>> as the code selects them
TrotterIdx(t, k) ==
    IF t = 0 THEN <<slices - 1, 1>>
    ELSE IF t = slices - 1 THEN <<slices - 2, 0>>
    ELSE <<k - 1, k + 1>>

\* the two inter-slice terms, with the neighbour slices read as vl and vr
TrotterTerm(c, i, k, vl, vr) ==
    (-2 * c[i][k] * (jperp * vl)) + (-2 * c[i][k] * (jperp * vr))

\* the accumulator after the two inter-slice terms were added to e
TrotterAdd(c, e, i, k, tl, tr) ==
    { e + TrotterTerm(c, i, k, vl, vr) : vl \in ReadConf(c, i, tl), vr \in ReadConf(c, i, tr) }

\* the injected generator: rng.permutation(seq) and the state it leaves
PermutationWithRepeats(s, seq) == [j \in DOMAIN seq |-> seq[1]]
RECURSIVE Permutation(_, _)
Permutation(s, seq) ==
    IF Len(seq) <= 1 THEN seq
    ELSE LET n == Len(seq)
             i == (s % n) + 1
             rest == [j \in 1..(n - 1) |-> IF j < i THEN seq[j] ELSE seq[j + 1]]
         IN  <<seq[i]>> \o Permutation(s \div n, rest)

RngNext(s) == (2 * s + 1) % RngMod

\* range(nspins)
Range(n) == [j \in 1..n |-> j - 1]

\* for ifield in xrange(sched.size): the loop has another iteration
MoreFieldsAtLeastOnce == ifield < Len(sched) \/ ifield = 0
MoreFields == ifield < Len(sched)

\* for step in xrange(mcsteps): the loop has another iteration
MoreStepsInclusive == step <= mcsteps
MoreSteps == step < mcsteps

\* for islice in xrange(slices): the loop has another iteration
MoreSlices == islice < slices

\* num_threads=nthreads: a thread of the pool is idle
IdleThreadButOne == Cardinality(thr) < nthreads - 1
IdleThread == Cardinality(thr) < nthreads

\* the scratch slot of spin i: ediffs[sidx]
SlotShared(i) == 0
Slot(i) == i

---------------------------------------------------------------------------
(* Inputs *)

\* every spin coupled to the next one (a lone spin: a local field)
Pair(n, J) == [i \in 0..(n - 1) |-> << <<(i + 1) % n, J>> >>]
\* the same, and a local-field entry h
PairField(n, J, h) == [i \in 0..(n - 1) |-> << <<(i + 1) % n, J>>, <<i, h>> >>]
\* the same, zero-padded to width 2
Padded(n, J) == [i \in 0..(n - 1) |-> << <<(i + 1) % n, J>>, <<0, 0>> >>]

NbsTables(n) == {Pair(n, 1000), PairField(n, -1000, 1000), Padded(n, 1000)}

InitialConfs(n, p) ==
    { [i \in 0..(n - 1) |-> [k \in 0..(p - 1) |-> 1]],
      [i \in 0..(n - 1) |-> [k \in 0..(p - 1) |-> IF i % 2 = 0 THEN 1 ELSE -1]],
      [i \in 0..(n - 1) |-> [k \in 0..(p - 1) |-> IF k % 2 = 0 THEN 1 ELSE -1]] }

Schedules == { SubSeq(Ladder, 1, n) : n \in 0..MaxSched }

\* the state of a call before its first statement
Entry ==
    /\ confs = confs0
    /\ rng = rng0
    /\ pc = "call"
    /\ outcome = "running"
    /\ ifield = 0 /\ step = 0 /\ islice = 0 /\ jperp = 0 /\ tidx = 0
    /\ sidx_shuff = <<>> /\ pos = 0 /\ sidx = 0 /\ tleft = 0 /\ tright = 0 /\ ediff = 0
    /\ ediffs = <<>> /\ nxt = 0 /\ thr = {}
    /\ snap = confs0
    /\ nfields = 0 /\ nsweeps = 0 /\ nprops = 0
    /\ zerodraws = TRUE /\ fixedorder = TRUE
    /\ nperms = 0 /\ lastdraw = -1

Init ==
    /\ engine \in {"serial", "parallel"}
    /\ nspins \in 1..MaxSpins
    /\ slices \in 1..MaxSlices
    /\ mcsteps \in 1..MaxSteps
    /\ sched \in Schedules
    /\ Len(sched) * mcsteps * slices * nspins <= MaxWork
    /\ temp = 1
    /\ nbs \in NbsTables(nspins)
    /\ confs0 \in InitialConfs(nspins, slices)
    /\ nthreads \in (IF engine = "serial" THEN {0} ELSE 1..MaxThreads)
    /\ rng0 \in (IF engine = "serial" THEN 0..(RngMod - 1) ELSE {0})
    /\ drawsrc = -1
    /\ run = 1 /\ result1 = <<>>
    /\ Entry

---------------------------------------------------------------------------
(* The schedule driver, common to both engines *)

\* declarations; serial: the first permutation; parallel: the scratch buffer
Call ==
    /\ pc = "call"
    /\ lastdraw' = -1
    /\ UNCHANGED nperms
    /\ IF engine = "serial"
       THEN /\ sidx_shuff' = Permutation(rng, Range(nspins))
            /\ rng' = RngNext(rng)
            /\ UNCHANGED <<ediffs, thr>>
       ELSE /\ ediffs' = [i \in 0..(nspins - 1) |-> 0]
            /\ UNCHANGED <<sidx_shuff, rng, thr>>
    /\ pc' = "field"
    /\ UNCHANGED <<inputs, confs, outcome, loops, pos, sidx, tleft, tright, ediff,
                   nxt, snap, hist, calls>>

\* head of the schedule loop: derive jperp from the next schedule value
NextField ==
    /\ pc = "field"
    /\ lastdraw' = -1
    /\ UNCHANGED nperms
    /\ MoreFields
    /\ IF slices * temp = 0
       THEN /\ pc' = "done"
            /\ outcome' = "ZeroDivisionError"
            /\ UNCHANGED <<jperp, step, nfields>>
       ELSE /\ jperp' \in { Jperp(f, slices, temp) : f \in ReadSched(ifield) }
            /\ step' = 0
            /\ nfields' = nfields + 1
            /\ pc' = "step"
            /\ UNCHANGED outcome
    /\ UNCHANGED <<inputs, confs, rng, ifield, islice, tidx, serial, par, snap,
                   nsweeps, nprops, zerodraws, fixedorder, calls>>

\* the schedule is exhausted: the call returns
Return ==
    /\ pc = "field"
    /\ lastdraw' = -1
    /\ UNCHANGED nperms
    /\ ~MoreFields
    /\ pc' = "done"
    /\ outcome' = "returned"
    /\ UNCHANGED <<inputs, confs, rng, loops, serial, par, snap, hist, calls>>

\* head of the step loop
NextStep ==
    /\ pc = "step"
    /\ lastdraw' = -1
    /\ UNCHANGED nperms
    /\ MoreSteps
    /\ islice' = 0
    /\ pc' = "slice"
    /\ UNCHANGED <<inputs, confs, rng, outcome, ifield, step, jperp, tidx, serial, par,
                   snap, hist, calls>>

\* the steps of this schedule value are done
EndField ==
    /\ pc = "step"
    /\ lastdraw' = -1
    /\ UNCHANGED nperms
    /\ ~MoreSteps
    /\ ifield' = ifield + 1
    /\ pc' = "field"
    /\ UNCHANGED <<inputs, confs, rng, outcome, step, islice, jperp, tidx, serial, par,
                   snap, hist, calls>>

\* head of the slice loop: start the sweep of slice islice
NextSlice ==
    /\ pc = "slice"
    /\ lastdraw' = -1
    /\ UNCHANGED nperms
    /\ MoreSlices
    /\ IF engine = "serial"
       THEN /\ pos' = 1
            /\ pc' = "spin"
            /\ fixedorder' = (fixedorder /\ sidx_shuff = Range(nspins))
            /\ UNCHANGED <<nxt, snap>>
       ELSE /\ nxt' = 0
            /\ snap' = confs
            /\ pc' = "region"
            /\ UNCHANGED <<pos, fixedorder>>
    /\ UNCHANGED <<inputs, confs, rng, outcome, loops, sidx_shuff, sidx, tleft, tright,
                   ediff, ediffs, thr, nfields, nsweeps, nprops, zerodraws, calls>>

\* all slices are swept: the step ends (serial: draw the next visiting order)
EndStep ==
    /\ pc = "slice"
    /\ lastdraw' = -1
    /\ ~MoreSlices
    /\ IF engine = "serial"
       THEN /\ sidx_shuff' = Permutation(rng, sidx_shuff)
            /\ rng' = RngNext(rng)
            /\ nperms' = nperms + 1
       ELSE UNCHANGED <<sidx_shuff, rng, nperms>>
    /\ step' = step + 1
    /\ pc' = "step"
    /\ UNCHANGED <<inputs, confs, outcome, ifield, islice, jperp, tidx, pos, sidx,
                   tleft, tright, ediff, par, snap, hist, calls>>

---------------------------------------------------------------------------
(* The serial sweep: QuantumAnneal *)

\* one spin of the visiting order: neighbour loop and inter-slice terms
SpinEval ==
    /\ pc = "spin"
    /\ lastdraw' = -1
    /\ UNCHANGED nperms
    /\ pos <= Len(sidx_shuff)
    /\ LET i == sidx_shuff[pos]
           t == TrotterIdx(tidx, islice)
       IN  /\ sidx' = i
           /\ tleft' = t[1]
           /\ tright' = t[2]
           /\ ediff' \in UNION { TrotterAdd(confs, e, i, islice, t[1], t[2]) :
                                 e \in NbLoop(confs, ediff, i, islice, 0) }
    /\ nprops' = nprops + 1
    /\ pc' = "accept"
    /\ UNCHANGED <<inputs, confs, rng, outcome, loops, sidx_shuff, pos, par, snap,
                   nfields, nsweeps, zerodraws, fixedorder, calls>>

\* accept or reject the flip of confs[sidx, islice]
Accept ==
    /\ pc = "accept"
    /\ UNCHANGED nperms
    /\ LET flipped == Flipped(confs, sidx, islice)
       IN  IF ediff > 0
           THEN /\ confs' = flipped
                /\ lastdraw' = -1
                /\ UNCHANGED zerodraws
           ELSE \E r \in Draws :
                /\ lastdraw' = r
                /\ confs' = IF ExpGreater(ediff, temp, r) THEN flipped ELSE confs
                /\ zerodraws' = (zerodraws /\ r = 0)
    /\ pos' = pos + 1
    /\ pc' = "spin"
    /\ UNCHANGED <<inputs, rng, outcome, loops, sidx_shuff, sidx, tleft, tright, ediff,
                   par, snap, nfields, nsweeps, nprops, fixedorder, calls>>

\* the spin loop of the slice is over: reset the accumulator
EndSlice ==
    /\ pc = "spin"
    /\ lastdraw' = -1
    /\ UNCHANGED nperms
    /\ pos > Len(sidx_shuff)
    /\ ediff' = 0
    /\ islice' = islice + 1
    /\ nsweeps' = nsweeps + 1
    /\ pc' = "slice"
    /\ UNCHANGED <<inputs, confs, rng, outcome, ifield, step, jperp, tidx, sidx_shuff,
                   pos, sidx, tleft, tright, par, snap, nfields, nprops, zerodraws,
                   fixedorder, calls>>

---------------------------------------------------------------------------
(* The parallel sweep: the prange region of QuantumAnneal_parallel *)

\* an idle thread takes the next chunk of iterations and starts its first one
PGrab ==
    /\ pc = "region"
    /\ lastdraw' = -1
    /\ UNCHANGED nperms
    /\ IdleThread
    /\ nxt < nspins
    /\ \E c \in 1..(nspins - nxt) :
        /\ thr' = thr \cup {[st |-> "nbr", cur |-> nxt, hi |-> nxt + c,
                             si |-> 0, tl |-> 0, tr |-> 0]}
        /\ nxt' = nxt + c
    /\ UNCHANGED <<inputs, confs, rng, pc, outcome, loops, serial, ediffs, snap, hist,
                   calls>>

\* one entry of the neighbour loop of the thread's iteration
PNeighbor(w) ==
    /\ pc = "region"
    /\ lastdraw' = -1
    /\ UNCHANGED nperms
    /\ w.st = "nbr"
    /\ w.si < maxnb
    /\ \E v \in NbRead(confs, w.cur, islice, w.si) :
         ediffs' = [ediffs EXCEPT ![Slot(w.cur)] =
                        @ + NbTerm(confs, w.cur, islice, w.si, v)]
    /\ thr' = (thr \ {w}) \cup {[w EXCEPT !.si = w.si + 1]}
    /\ nprops' = nprops + (IF w.si = 0 THEN 1 ELSE 0)
    /\ UNCHANGED <<inputs, confs, rng, pc, outcome, loops, serial, nxt, snap, nfields,
                   nsweeps, zerodraws, fixedorder, calls>>

\* periodic boundaries and the two inter-slice terms
PTrotter(w) ==
    /\ pc = "region"
    /\ lastdraw' = -1
    /\ UNCHANGED nperms
    /\ w.st = "nbr"
    /\ w.si >= maxnb
    /\ LET tt == TrotterIdx(tidx, islice)
       IN  /\ \E e \in TrotterAdd(confs, ediffs[Slot(w.cur)], w.cur, islice, tt[1], tt[2]) :
                ediffs' = [ediffs EXCEPT ![Slot(w.cur)] = e]
           /\ thr' = (thr \ {w}) \cup {[w EXCEPT !.st = "acc", !.tl = tt[1], !.tr = tt[2]]}
    /\ UNCHANGED <<inputs, confs, rng, pc, outcome, loops, serial, nxt, snap, hist,
                   calls>>

\* accept or reject the flip of confs[sidx, islice]; go on with the chunk
PAccept(w) ==
    /\ pc = "region"
    /\ UNCHANGED nperms
    /\ w.st = "acc"
    /\ LET flipped == Flipped(confs, w.cur, islice)
       IN  IF ediffs[Slot(w.cur)] > 0
           THEN /\ confs' = flipped
                /\ lastdraw' = -1
                /\ UNCHANGED zerodraws
           ELSE \E r \in Draws :
                /\ lastdraw' = r
                /\ confs' = IF ExpGreater(ediffs[Slot(w.cur)], temp, r)
                            THEN flipped ELSE confs
                /\ zerodraws' = (zerodraws /\ r = 0)
    /\ thr' = (thr \ {w}) \cup
                (IF w.cur + 1 < w.hi
                 THEN {[st |-> "nbr", cur |-> w.cur + 1, hi |-> w.hi,
                        si |-> 0, tl |-> 0, tr |-> 0]}
                 ELSE {})
    /\ UNCHANGED <<inputs, rng, pc, outcome, loops, serial, ediffs, nxt, snap, nfields,
                   nsweeps, nprops, fixedorder, calls>>

\* the implicit barrier at the end of the region, then ediffs.fill(0.0)
PJoin ==
    /\ pc = "region"
    /\ lastdraw' = -1
    /\ UNCHANGED nperms
    /\ nxt >= nspins
    /\ thr = {}
    /\ ediffs' = Filled(ediffs)
    /\ islice' = islice + 1
    /\ nsweeps' = nsweeps + 1
    /\ snap' = confs
    /\ pc' = "slice"
    /\ UNCHANGED <<inputs, confs, rng, outcome, ifield, step, jperp, tidx, serial, nxt,
                   thr, nfields, nprops, zerodraws, fixedorder, calls>>

Driver == Call \/ NextField \/ Return \/ NextStep \/ EndField \/ NextSlice \/ EndStep

Serial == SpinEval \/ Accept \/ EndSlice

Parallel ==
    \/ PGrab
    \/ \E w \in thr : PNeighbor(w)
    \/ \E w \in thr : PTrotter(w)
    \/ \E w \in thr : PAccept(w)
    \/ PJoin

Next == Driver \/ Serial \/ Parallel

Spec == Init /\ [][Next]_vars

\* the calling thread runs on, and the runtime schedules the pool's threads
\* fairly: a step that stays possible is eventually taken
InitFair == Init /\ Len(sched) * mcsteps * slices * nspins <= MaxWorkFair

SpecFair == InitFair /\ [][Next]_vars /\ WF_vars(Next)

---------------------------------------------------------------------------
(* A repeated call: the serial engine called twice with the same inputs and *)
(* the injected generator put back in the same state.  crand() is libc's    *)
(* process-global generator: the call neither receives nor resets it.       *)

SecondCall ==
    /\ pc = "done"
    /\ outcome = "returned"
    /\ run = 1
    /\ run' = 2
    /\ result1' = confs
    /\ confs' = confs0
    /\ rng' = rng0
    /\ pc' = "call"
    /\ outcome' = "running"
    /\ ifield' = 0 /\ step' = 0 /\ islice' = 0 /\ jperp' = 0
    /\ sidx_shuff' = <<>> /\ pos' = 0 /\ sidx' = 0 /\ tleft' = 0 /\ tright' = 0
    /\ ediff' = 0
    /\ nfields' = 0 /\ nsweeps' = 0 /\ nprops' = 0
    /\ zerodraws' = TRUE /\ fixedorder' = TRUE
    /\ nperms' = 0 /\ lastdraw' = -1
    /\ UNCHANGED <<inputs, tidx, par, snap>>

InitSerial == Init /\ engine = "serial"

NextTwoCalls == Driver \/ Serial \/ SecondCall

SpecTwoCalls == InitSerial /\ [][NextTwoCalls]_vars

---------------------------------------------------------------------------
(* The two engines on the same inputs: QuantumAnneal, then                  *)
(* QuantumAnneal_parallel with nthreads = 1, each with crand() returning    *)
(* the same value at every call, so that both see the same draws.           *)

InitEngines ==
    /\ engine = "serial"
    /\ nspins \in 1..MaxSpins
    /\ slices \in 1..MaxSlices
    /\ mcsteps \in 1..MaxSteps
    /\ sched \in Schedules
    /\ Len(sched) * mcsteps * slices * nspins <= MaxWork
    /\ temp = 1
    /\ nbs \in NbsTables(nspins)
    /\ confs0 \in InitialConfs(nspins, slices)
    /\ nthreads = 0
    /\ rng0 \in 0..(RngMod - 1)
    /\ drawsrc \in 0..RAND_MAX
    /\ run = 1 /\ result1 = <<>>
    /\ Entry

SwitchEngine ==
    /\ pc = "done"
    /\ outcome = "returned"
    /\ run = 1
    /\ run' = 2
    /\ result1' = confs
    /\ engine' = "parallel"
    /\ nthreads' = 1
    /\ confs' = confs0
    /\ rng' = rng0
    /\ pc' = "call"
    /\ outcome' = "running"
    /\ ifield' = 0 /\ step' = 0 /\ islice' = 0 /\ jperp' = 0
    /\ sidx_shuff' = <<>> /\ pos' = 0 /\ sidx' = 0 /\ tleft' = 0 /\ tright' = 0
    /\ ediff' = 0
    /\ nfields' = 0 /\ nsweeps' = 0 /\ nprops' = 0
    /\ zerodraws' = TRUE
    /\ nperms' = 0 /\ lastdraw' = -1
    /\ UNCHANGED <<sched, mcsteps, slices, temp, nspins, nbs, confs0, rng0, drawsrc,
                   tidx, par, snap, fixedorder>>

NextEngines == Driver \/ Serial \/ Parallel \/ SwitchEngine

SpecEngines == InitEngines /\ [][NextEngines]_vars

---------------------------------------------------------------------------
(* Calls whose inputs violate a precondition *)

\* the preconditions the specification puts on the inputs of a call
Precondition ==
    /\ temp > 0
    /\ mcsteps > 0 /\ slices > 0 /\ nspins > 0
    /\ \A i \in DOMAIN confs0 : \A k \in DOMAIN confs0[i] : confs0[i][k] \in {-1, 1}
    /\ \A i \in DOMAIN nbs : \A si \in DOMAIN nbs[i] : nbs[i][si][1] \in 0..(nspins - 1)

\* a configuration with an entry that is no spin value
BadConfs(n, p) ==
    { [i \in 0..(n - 1) |-> [k \in 0..(p - 1) |-> IF i = 0 /\ k = 0 THEN 2 ELSE 1]] }

\* a neighbour table with an index outside 0..nspins-1
BadTables(n) == { [i \in 0..(n - 1) |-> << <<n, 1000>> >>] }

InitUnchecked ==
    /\ engine \in {"serial", "parallel"}
    /\ nspins \in 1..MaxSpins
    /\ slices \in 0..MaxSlices
    /\ mcsteps \in 0..MaxSteps
    /\ sched \in Schedules
    /\ Len(sched) * mcsteps * slices * nspins <= MaxWork
    /\ temp \in {0, 1}
    /\ nbs \in NbsTables(nspins) \cup BadTables(nspins)
    /\ confs0 \in InitialConfs(nspins, slices) \cup BadConfs(nspins, slices)
    /\ nthreads \in (IF engine = "serial" THEN {0} ELSE 1..MaxThreads)
    /\ rng0 \in (IF engine = "serial" THEN 0..(RngMod - 1) ELSE {0})
    /\ drawsrc = -1
    /\ run = 1 /\ result1 = <<>>
    /\ ~Precondition
    /\ Entry

SpecUnchecked == InitUnchecked /\ [][Next]_vars

---------------------------------------------------------------------------
(* Claims *)

\* C1: every entry of the configuration is -1 or +1 in every state of a call
\* of either engine that started from a configuration of -1 and +1 entries.
C1_SpinsStayPlusMinusOne ==
    \A i \in DOMAIN confs : \A k \in DOMAIN confs[i] : confs[i][k] \in {-1, 1}

\* a call has returned with at least one entry flipped
C1_Witness == outcome = "returned" /\ confs # confs0

\* C2: the Trotter terms of a proposal at slice k read slices (k-1) mod P and
\* (k+1) mod P.
C2_TrotterNeighboursOfSweptSlice ==
    /\ pc = "accept" =>
          /\ tleft = (islice - 1) % slices
          /\ tright = (islice + 1) % slices
    /\ \A w \in thr : w.st = "acc" =>
          /\ w.tl = (islice - 1) % slices
          /\ w.tr = (islice + 1) % slices

\* C3: with a single slice both Trotter neighbours are slice 0, so every slice
\* index read is within 0..slices-1.
C3_SingleSliceSelfNeighbour ==
    slices = 1 =>
        /\ pc = "accept" => (tleft = 0 /\ tright = 0)
        /\ \A w \in thr : w.st = "acc" => (w.tl = 0 /\ w.tr = 0)

\* C4: two calls of the serial engine with the same inputs and the injected
\* generator in the same state end in the same configuration (stated for
\* calls with two slices or more, where every read is within bounds).
C4_SecondCallSameResult ==
    (run = 2 /\ outcome = "returned" /\ slices >= 2) => confs = result1

\* the value a worker would test for spin i if every read returned the value
\* the configuration had when the region started
SnapshotEdiffs(i, tl, tr) ==
    UNION { TrotterAdd(snap, e, i, islice, tl, tr) : e \in NbLoop(snap, 0, i, islice, 0) }

\* the neighbour loop of spin i with each neighbour read either as it was when
\* the region started or as it is now
RECURSIVE MixedLoop(_, _, _)
MixedLoop(e, i, si) ==
    IF si >= maxnb THEN {e}
    ELSE UNION { MixedLoop(e + NbTerm(snap, i, islice, si, v), i, si + 1) :
                 v \in NbRead(snap, i, islice, si) \cup NbRead(confs, i, islice, si) }

MixedEdiffs(i, tl, tr) ==
    UNION { TrotterAdd(snap, e, i, islice, tl, tr) : e \in MixedLoop(0, i, 0) }

\* C5 (as stated): in a parallel region the value tested for every spin is the
\* one computed from the configuration at the start of the region, so no
\* decision depends on a flip committed in the same region (stated for calls
\* with two slices or more, where every read is within bounds).
C5_DecisionsFromRegionStart ==
    slices >= 2 =>
        \A w \in thr : w.st = "acc" => ediffs[w.cur] \in SnapshotEdiffs(w.cur, w.tl, w.tr)

\* C5 (amended): in a parallel region the value tested for spin i is held in
\* slot i and is made of spin i's own entry, unchanged since the region
\* started, and of one read of each neighbour, each either the neighbour's
\* value at the start of the region or its value after a flip committed in the
\* same region.
C5_DecisionsFromOwnReads ==
    \A w \in thr : w.st = "acc" => ediffs[w.cur] \in MixedEdiffs(w.cur, w.tl, w.tr)

\* a worker is about to decide on a value that includes a neighbour's flip of
\* the same region
C5_Witness ==
    \E w \in thr :
        /\ slices >= 2 /\ nthreads >= 2
        /\ w.st = "acc"
        /\ ediffs[w.cur] \notin SnapshotEdiffs(w.cur, w.tl, w.tr)
        /\ \E j \in DOMAIN confs : j > w.cur /\ confs[j][islice] # snap[j][islice]

\* C6: with an empty schedule no proposal is evaluated and the configuration
\* is left unchanged.
C6_EmptyScheduleNoChange ==
    Len(sched) = 0 => (confs = confs0 /\ nprops = 0 /\ nsweeps = 0 /\ nfields = 0)

\* a call with an empty schedule has returned
C6_Witness == Len(sched) = 0 /\ outcome = "returned"

\* C7: schedule values are taken in index order, jperp is derived once per
\* value, mcsteps sweeps of slices 0..slices-1 in order are run with it, and
\* a call runs len(sched)*mcsteps*slices slice sweeps.
C7_ScheduleConsumedInOrder ==
    /\ pc = "field" => (nfields = ifield /\ nsweeps = ifield * mcsteps * slices)
    /\ pc \in {"step", "slice", "spin", "accept", "region"} =>
          /\ ifield < Len(sched)
          /\ nfields = ifield + 1
          /\ jperp = Jperp(sched[ifield + 1], slices, temp)
    /\ pc = "step" => nsweeps = (ifield * mcsteps + step) * slices
    /\ pc \in {"slice", "spin", "accept", "region"} =>
          /\ step < mcsteps
          /\ nsweeps = (ifield * mcsteps + step) * slices + islice
    /\ pc \in {"spin", "accept", "region"} => islice < slices
    /\ outcome = "returned" =>
          (nfields = Len(sched) /\ nsweeps = Len(sched) * mcsteps * slices)

\* a call over two schedule values with several sweeps per value has returned
C7_Witness ==
    outcome = "returned" /\ Len(sched) = 2 /\ mcsteps * slices >= 2 /\ nsweeps >= 4

\* the end-to-end scenario of the specification
Scenario ==
    /\ engine = "serial"
    /\ nspins = 2 /\ slices = 2 /\ mcsteps = 1
    /\ sched = <<1000>>
    /\ nbs = Pair(2, 1000)
    /\ confs0 = [i \in 0..1 |-> [k \in 0..1 |-> IF i = 0 THEN 1 ELSE -1]]

\* the proposal at (spin i, slice k) has been decided, in the scenario
ScenarioDecided(i, k) ==
    \/ nsweeps > k
    \/ nsweeps = k /\ pc \in {"spin", "accept"} /\ i < pos - 1

\* C8: in the scenario, with spin order 0,1 and every draw 0.0, each of the
\* four proposals is accepted and the final configuration is the negation of
\* the initial one.
C8_ScenarioAllFlipped ==
    (Scenario /\ zerodraws /\ fixedorder) =>
        \A i \in 0..1 : \A k \in 0..1 :
            confs[i][k] = IF ScenarioDecided(i, k) THEN -confs0[i][k] ELSE confs0[i][k]

\* the scenario has run to its end with all draws 0.0 and order 0,1
C8_Witness ==
    /\ Scenario /\ zerodraws /\ fixedorder
    /\ outcome = "returned"
    /\ nprops = 4
    /\ confs = [i \in 0..1 |-> [k \in 0..1 |-> IF i = 0 THEN -1 ELSE 1]]

\* C9: a call whose inputs violate a precondition ends in a validation error
\* before any proposal is evaluated and leaves the configuration unchanged
\* (stated without the error outcome: no proposal, no change).
C9_InvalidInputsRejected ==
    ~Precondition => (nprops = 0 /\ confs = confs0)

\* C10: in the serial engine the accumulator is zero whenever the evaluation
\* of a spin starts.
C10_AccumulatorZeroAtSpinStart ==
    (pc = "spin" /\ pos <= Len(sidx_shuff)) => ediff = 0

\* C11: the serial engine redraws the visiting order after every slice, so a
\* call that returns has drawn len(sched) * mcsteps * slices permutations
\* since the sweeps began.
C11_PermutationPerSlice ==
    (engine = "serial" /\ outcome = "returned") =>
        nperms = Len(sched) * mcsteps * slices

\* C12: QuantumAnneal_parallel with nthreads = 1 returns the configuration
\* the serial engine returns on the same inputs, when the serial engine
\* visited the spins in the order 0..nspins-1 in every sweep and both saw
\* the same draws (two or more slices, so that no read is out of bounds).
C12_OneThreadSameAsSerial ==
    (run = 2 /\ outcome = "returned" /\ fixedorder /\ slices >= 2) =>
        confs = result1

\* the decision on a proposal with accumulated value e, the entry going from
\* old to new, u the draw consumed (-1: none)
DecisionRule(e, old, new, u) ==
    IF e > 0
    THEN new = -old /\ u = -1
    ELSE /\ u \in 0..RAND_MAX
         /\ (new = -old) <=> (u = 0 \/ e > temp * LnDraw[u])
         /\ (new = old) <=> ~(u = 0 \/ e > temp * LnDraw[u])

\* C13: in both engines a proposal whose accumulated value is positive is
\* accepted without a draw; otherwise exactly one draw u = crand()/RAND_MAX
\* is consumed and the proposal is accepted if and only if
\* exp(ediff / temp) > u (u = 0: always; else ediff > temp * ln u).  An
\* accepted proposal negates the entry, a rejected one leaves it.
C13_AcceptanceRule ==
    [][ /\ (pc = "accept" /\ pc' = "spin") =>
            DecisionRule(ediff, confs[sidx][islice], confs'[sidx][islice], lastdraw')
        /\ \A w \in thr :
            (pc = "region" /\ w.st = "acc" /\ w \notin thr') =>
                DecisionRule(ediffs[w.cur], confs[w.cur][islice],
                                 confs'[w.cur][islice], lastdraw')
      ]_vars

\* the parallel engine has just decided a proposal of non-positive value on a
\* nonzero draw, in a region where a proposal was accepted
C13_Witness ==
    /\ engine = "parallel"
    /\ lastdraw > 0
    /\ \E i \in 0..(nspins - 1) : \E k \in 0..(slices - 1) : confs[i][k] # snap[i][k]

\* C17: the uniform draw u = crand() / RAND_MAX consumed by a decision lies
\* in [0, 1): it is never 1.
C17_DrawBelowOne ==
    lastdraw >= 0 => (0 <= lastdraw /\ lastdraw < RAND_MAX)

\* C14: in the parallel engine only the worker handling spin i changes
\* scratch slot i; the slots are reset (all to zero) only once no worker of
\* the region is busy and no iteration is left, before the next region
\* starts; and slot i is zero whenever the evaluation of spin i begins.
C14_ScratchSlots ==
    [][ engine = "parallel" =>
          /\ (pc = "region" /\ pc' = "region") =>
                \A j \in 0..(nspins - 1) :
                    ediffs'[j] # ediffs[j] =>
                        \E w \in thr : w.cur = j /\ w.st = "nbr" /\ w \notin thr'
          /\ (pc = "region" /\ pc' # "region") =>
                /\ thr = {} /\ nxt = nspins
                /\ \A j \in 0..(nspins - 1) : ediffs'[j] = 0
          /\ (pc # "region" /\ pc # "call") => ediffs' = ediffs
          /\ \A w \in thr' :
                (w.st = "nbr" /\ w.si = 0) => ediffs'[w.cur] = 0
      ]_vars

\* after a reset, the evaluation of spin 1 begins on a zero slot while the
\* slot of spin 0 holds the value spin 0 was decided on
C14_Witness ==
    /\ pc = "region"
    /\ nsweeps >= 1
    /\ ediffs[0] # 0
    /\ \E w \in thr : w.cur = 1 /\ w.st = "nbr" /\ w.si = 0 /\ ediffs[1] = 0

\* the iterations of the chunks of S whose evaluation has not started
RECURSIVE NotStarted(_)
NotStarted(S) ==
    IF S = {} THEN 0
    ELSE LET w == CHOOSE x \in S : TRUE
         IN  (w.hi - w.cur) - (IF w.st = "nbr" /\ w.si = 0 THEN 0 ELSE 1)
             + NotStarted(S \ {w})

\* the proposals of the sweep in progress whose evaluation has started
StartedInSweep ==
    IF engine = "serial"
    THEN (IF pc = "spin" THEN pos - 1 ELSE IF pc = "accept" THEN pos ELSE 0)
    ELSE (IF pc = "region" THEN nxt - NotStarted(thr) ELSE 0)

\* C15: within the sweep of one slice every spin index is proposed exactly
\* once (serial: the spins in the order of a permutation of 0..nspins-1,
\* one per position; parallel: one iteration per spin, in exactly one
\* worker's chunk), so that a call that returns has evaluated
\* len(sched) * mcsteps * slices * nspins proposals.
C15_EachSpinOncePerSweep ==
    pc # "call" =>
        /\ nprops = nsweeps * nspins + StartedInSweep
        /\ engine = "serial" =>
            /\ Len(sidx_shuff) = nspins
            /\ {sidx_shuff[j] : j \in 1..nspins} = 0..(nspins - 1)
            /\ pc \in {"spin", "accept"} => pos \in 1..(nspins + 1)
            /\ pc = "accept" => (pos <= nspins /\ sidx = sidx_shuff[pos])
        /\ (engine = "parallel" /\ pc = "region") =>
            /\ nxt <= nspins
            /\ \A w \in thr : 0 <= w.cur /\ w.cur < w.hi /\ w.hi <= nxt
            /\ \A w1, w2 \in thr :
                w1 # w2 => (w1.hi <= w2.cur \/ w2.hi <= w1.cur)
        /\ outcome = "returned" =>
            /\ nsweeps = Len(sched) * mcsteps * slices
            /\ nprops = Len(sched) * mcsteps * slices * nspins

\* a call has returned after two or more sweeps of two spins
C15_Witness ==
    /\ outcome = "returned"
    /\ nspins = 2
    /\ nsweeps >= 2
    /\ nprops = 2 * nsweeps

\* the term of entry n (1-based) of the neighbour list of spin i, slice k
EntryTerm(i, k, n) ==
    LET j == nbs[i][n][1]
        J == nbs[i][n][2]
    IN  IF j = i THEN -2 * confs[i][k] * J
        ELSE -2 * confs[i][k] * J * confs[j][k]

RECURSIVE IntraSliceSum(_, _, _)
IntraSliceSum(i, k, n) ==
    IF n = 0 THEN 0 ELSE EntryTerm(i, k, n) + IntraSliceSum(i, k, n - 1)

\* C16: the intra-slice part one evaluation of (spin i, slice k) adds to the
\* accumulator is the sum over all maxnb entries (j, J) of spin i's list of
\* -2*confs[i,k]*J when j = i and -2*confs[i,k]*J*confs[j,k] when j # i, the
\* neighbour read from slice k (serial: the whole sum in one evaluation,
\* followed by the inter-slice terms; parallel: entry by entry into the
\* spin's slot); an entry with coupling 0 adds 0.
C16_IntraSliceSum ==
    [][ /\ (pc = "spin" /\ pc' = "accept") =>
            ediff' \in TrotterAdd(confs, ediff + IntraSliceSum(sidx', islice, maxnb),
                                  sidx', islice, tleft', tright')
        /\ \A w \in thr :
            (pc = "region" /\ w.st = "nbr" /\ w.si < maxnb /\ w \notin thr') =>
                /\ ediffs'[w.cur] = ediffs[w.cur] + EntryTerm(w.cur, islice, w.si + 1)
                /\ nbs[w.cur][w.si + 1][2] = 0 => ediffs'[w.cur] = ediffs[w.cur]
                /\ [w EXCEPT !.si = w.si + 1] \in thr'
        /\ \A w \in thr :
            (pc = "region" /\ w.st = "nbr" /\ w \notin thr'
                /\ \E x \in thr' : x.cur = w.cur /\ x.st = "acc") => w.si = maxnb
      ]_vars

\* a spin at -1 whose list holds a local-field entry and a neighbour entry,
\* both with nonzero coupling, has been evaluated
C16_Witness ==
    /\ pc = "accept"
    /\ confs[sidx][islice] = -1
    /\ \E n \in 1..maxnb : nbs[sidx][n][1] = sidx /\ nbs[sidx][n][2] # 0
    /\ \E n \in 1..maxnb : nbs[sidx][n][1] # sidx /\ nbs[sidx][n][2] # 0

\* c2 differs from c1 at most at the entry (i, k)
SameExceptAt(c1, c2, i, k) ==
    \A ii \in 0..(nspins - 1) : \A kk \in 0..(slices - 1) :
        (ii # i \/ kk # k) => c2[ii][kk] = c1[ii][kk]

\* C18: evaluating and deciding the proposal at (spin i, slice k) changes at
\* most the entry confs[i, k]: the configuration changes only in the step
\* deciding a proposal, and then only at that proposal's entry; the
\* neighbour table and the schedule are unchanged by every step of the call.
C18_ProposalFrame ==
    [][ /\ nbs' = nbs
        /\ sched' = sched
        /\ confs' # confs =>
            \/ /\ engine = "serial" /\ pc = "accept"
               /\ SameExceptAt(confs, confs', sidx, islice)
            \/ /\ engine = "parallel" /\ pc = "region"
               /\ \E w \in thr :
                    /\ w.st = "acc" /\ w \notin thr'
                    /\ SameExceptAt(confs, confs', w.cur, islice)
      ]_vars

\* the first proposal of a call on two spins and two or more slices has been
\* accepted: its entry is negated, every other entry is as at the call
C18_Witness ==
    /\ engine = "serial" /\ pc = "spin" /\ pos = 2 /\ nsweeps = 0
    /\ nspins = 2 /\ slices >= 2
    /\ confs[sidx][islice] = -confs0[sidx][islice]
    /\ SameExceptAt(confs0, confs, sidx, islice)

\* C19: in the parallel region of slice k no two busy workers handle the
\* same spin; an entry is written only by the decision of the worker
\* handling its spin, only in slice k, and at most once in the region; the
\* entries of every other slice stay as they were when the region started.
C19_DisjointWrites ==
    [][ (engine = "parallel" /\ pc = "region") =>
          /\ \A w1, w2 \in thr : w1 # w2 => w1.cur # w2.cur
          /\ \A i \in 0..(nspins - 1) : \A k \in 0..(slices - 1) :
                /\ confs'[i][k] # confs[i][k] =>
                    /\ k = islice
                    /\ confs[i][k] = snap[i][k]
                    /\ \E w \in thr : w.cur = i /\ w.st = "acc" /\ w \notin thr'
                /\ k # islice => confs'[i][k] = snap[i][k]
      ]_vars

\* two workers in one region of a later slice: the one handling spin 1 has
\* written its entry while the one handling spin 0 is about to decide
C19_Witness ==
    /\ engine = "parallel" /\ pc = "region" /\ islice >= 1
    /\ nspins >= 2
    /\ confs[1][islice] # snap[1][islice]
    /\ \E w \in thr : w.cur = 0 /\ w.st = "acc"

\* C20: under fair scheduling every call of either engine eventually
\* returns; it returns only after all steps of all schedule values have
\* completed; and a busy worker can always take its next step: it waits on
\* no other worker (idle threads wait only at the join closing the region).
C20_EventuallyReturns ==
    /\ <>(pc = "done" /\ outcome = "returned")
    /\ [](outcome = "returned" =>
            /\ ifield = Len(sched)
            /\ nfields = Len(sched)
            /\ nsweeps = Len(sched) * mcsteps * slices)
    /\ [](\A w \in thr : ENABLED (PNeighbor(w) \/ PTrotter(w) \/ PAccept(w)))

\* a call of the parallel engine with two threads has returned after two or
\* more regions
C20_Witness ==
    /\ engine = "parallel" /\ nthreads >= 2
    /\ outcome = "returned"
    /\ nsweeps >= 2

====
